---- MODULE Spec2Model ----
(***************************************************************************)
(* Ficha endpoint enforcement agent: shield state machine, scan loop,      *)
(* revert timers, idle detector and the commands that drive them.          *)
(* Time is counted in seconds.  Strings are sequences of one-character     *)
(* strings so that prefix, substring and case operations are computed.     *)
(* The Greek letters capital sigma, small sigma and small final sigma are   *)
(* the characters written "SIGMA", "sigma" and "final_sigma".               *)
(***************************************************************************)
EXTENDS Integers, Sequences, FiniteSets, TLC

VARIABLES
    shield_status,        \* AppState.shield_status
    is_monitoring,        \* ProcessMonitor.is_monitoring
    protected_processes,  \* ProcessMonitor.protected_processes (the replica)
    db_apps,              \* protected_apps table, process_name column, creation order
    procs,                \* the OS process table: a set of ProcessInfo
    scan_pc,              \* position of the scan loop task
    protected,            \* check_and_kill_protected: local clone of the replica
    processes,            \* check_and_kill_protected: local snapshot
    scan_i,               \* index of the process being examined / reported
    killed,               \* check_and_kill_protected: Vec<(pid, name)>
    signals,              \* pids sent SIGKILL during the current tick
    delivered,            \* pids for which signal::kill returned Ok in the current tick
    reported,             \* the (pid, name) pairs on_kill was called with in the tick
    timers,               \* pending revert timers: remaining seconds -> count
    since_kill,           \* seconds since a kill callback last wrote THREAT_DETECTED
                          \* (GraceDelay + 1: longer ago than the grace delay, or never)
    act_pc,               \* position of an activate_shield command
    act_clean,            \* no other writer touched status/flag during the command
    lock_pc,              \* position of a lock_shield command
    lock_clean,           \* no other writer touched status/flag/replica during it
    lock_names,           \* update_protected_processes: local process_names
    idle_pc,              \* position of the idle detector task
    since_activity,       \* seconds since IdleTracker.last_activity (capped)
    timeout_minutes,      \* IdleTracker.timeout_minutes
    is_enabled,           \* IdleTracker.is_enabled
    timeout_arg,          \* the minutes value last given for the idle timeout
    en_pc,                \* position of a set_enabled call (policy_4 toggle)
    since_fire,           \* seconds since the idle callback last ran (capped)
    since_enable,         \* seconds since set_enabled(true) was last called (capped)
    match_call,           \* the last process_matches call: arguments and result
    refresh_due,          \* a refresh of the replica has failed and was not retried
    batch_ok,             \* no command has returned an error since the commands were at rest
    notified,             \* the (pid, name) pairs emitted as process-killed in the tick
    auto_locked,          \* the on_idle closure in progress has emitted auto-locked
    add_pc,               \* position of an add_protected_app command
    add_names,            \* update_protected_processes: its local process_names
    rem_pc,               \* position of a remove_protected_app command
    rem_names,            \* update_protected_processes: its local process_names
    platform,             \* the target_os the program was built for
    visible_name,         \* the name of the process as the OS shows it
    stealth_last,         \* the last StealthMode call and its result
    owner,                \* mutex -> the task holding it, or "free"
    lk,                   \* task -> the lock operations its current operation has left
    policy_enabled,       \* security_policies: the enabled column of policy_4
    toggle_cmd            \* toggle_security_policy command -> its position and local is_enabled

vars == << shield_status, is_monitoring, protected_processes, db_apps, procs,
           scan_pc, protected, processes, scan_i, killed, signals, delivered,
           reported, timers, since_kill, act_pc, act_clean, lock_pc, lock_clean, lock_names, idle_pc,
           since_activity, timeout_minutes, is_enabled, timeout_arg, en_pc,
           since_fire, since_enable, match_call, refresh_due, batch_ok, notified,
           auto_locked, add_pc, add_names, rem_pc, rem_names, platform,
           visible_name, stealth_last, owner, lk, policy_enabled, toggle_cmd >>

shieldVars == << shield_status, is_monitoring >>
cmdVars    == << act_pc, act_clean, lock_pc, lock_clean, lock_names >>
scanVars   == << scan_pc, protected, processes, scan_i, killed, signals,
                delivered, reported >>
trackVars  == << timeout_arg, en_pc, since_fire, since_enable >>
idleVars   == << idle_pc, since_activity, timeout_minutes, is_enabled, trackVars >>
histVars   == << refresh_due, batch_ok, notified, auto_locked >>
replVars   == << add_pc, add_names, rem_pc, rem_names >>
stealthVars == << platform, visible_name, stealth_last >>
lockVars   == << owner, lk >>
toggleVars == << policy_enabled, toggle_cmd >>
extVars    == << replVars, stealthVars, lockVars, toggleVars >>

-----------------------------------------------------------------------------
(* Bounds *)

MaxProcs == 1

MaxScanProcs == 2

MaxNameLen == 3

MaxExeLen == 2

-----------------------------------------------------------------------------
(* Program constants *)

GraceDelay == 3

SecsPerMinute == 60

DefaultTimeout == 10

MinTimeout == 1

MaxTimeout == 10

-----------------------------------------------------------------------------
(* Strings *)

UpperChars ==
    << "A","B","C","D","E","F","G","H","I","J","K","L","M",
       "N","O","P","Q","R","S","T","U","V","W","X","Y","Z" >>

LowerChars ==
    << "a","b","c","d","e","f","g","h","i","j","k","l","m",
       "n","o","p","q","r","s","t","u","v","w","x","y","z" >>

\* char::to_lowercase on the letters; every other character is left alone
UpperToLower ==
    [c \in {UpperChars[i] : i \in 1..Len(UpperChars)} |->
        LowerChars[CHOOSE i \in 1..Len(UpperChars) : UpperChars[i] = c]]

ToLowerChar(c) == IF c \in DOMAIN UpperToLower THEN UpperToLower[c] ELSE c

\* Unicode properties Cased and Case_Ignorable, for the characters used here
Cased(c) ==
    \/ \E i \in 1..Len(UpperChars) : c = UpperChars[i] \/ c = LowerChars[i]
    \/ c \in {"SIGMA", "sigma", "final_sigma"}

Case_Ignorable(c) == c \in {".", ":", "^"}

\* str::to_lowercase, case_ignorable_then_cased: the first character that is
\* not Case_Ignorable, walking back from i (dir = -1) or on from i (dir = 1),
\* exists and is Cased
case_ignorable_then_cased(s, i, dir) ==
    LET rest == {j \in 1..Len(s) : (j - i) * dir > 0 /\ ~Case_Ignorable(s[j])}
    IN  /\ rest # {}
        /\ Cased(s[CHOOSE j \in rest : \A k \in rest : (k - j) * dir >= 0])

\* str::to_lowercase: capital sigma becomes the final form at the end of a
\* word and the medial form elsewhere; every other character by its own mapping
ToLower(s) ==
    [i \in 1..Len(s) |->
        IF s[i] = "SIGMA"
        THEN IF case_ignorable_then_cased(s, i, -1) /\ ~case_ignorable_then_cased(s, i, 1)
             THEN "final_sigma" ELSE "sigma"
        ELSE ToLowerChar(s[i])]

StartsWith(s, p) == Len(p) <= Len(s) /\ SubSeq(s, 1, Len(p)) = p

Contains(s, p) ==
    \E i \in 0..(Len(s) - Len(p)) : SubSeq(s, i + 1, i + Len(p)) = p

\* exe.split('/').last(): the text after the last '/', the whole text without one
LastSegment(s) ==
    LET slashes == {i \in 1..Len(s) : s[i] = "/"}
    IN  IF slashes = {} THEN s
        ELSE SubSeq(s, (CHOOSE i \in slashes : \A j \in slashes : j <= i) + 1, Len(s))

NoExe == [some |-> FALSE, val |-> << >>]

SomeExe(s) == [some |-> TRUE, val |-> s]

\* mutant: an empty protected name or process name matches nothing
process_matches_NonEmpty(protected_name, process_name, exe_path) ==
    LET protected_lower == ToLower(protected_name)
        process_lower   == ToLower(process_name)
        exe_lower       == ToLower(exe_path.val)
        binary_lower    == ToLower(LastSegment(exe_path.val))
    IN  /\ Len(protected_name) > 0
        /\ Len(process_name) > 0
        /\ \/ process_lower = protected_lower
           \/ StartsWith(process_lower, protected_lower)
           \/ StartsWith(protected_lower, process_lower)
           \/ /\ exe_path.some
              /\ \/ Contains(exe_lower, protected_lower)
                 \/ binary_lower = protected_lower
                 \/ StartsWith(binary_lower, protected_lower)
                 \/ StartsWith(protected_lower, binary_lower)

process_matches(protected_name, process_name, exe_path) ==
    LET protected_lower == ToLower(protected_name)
        process_lower   == ToLower(process_name)
        exe_lower       == ToLower(exe_path.val)
        binary_lower    == ToLower(LastSegment(exe_path.val))
    IN  \/ process_lower = protected_lower
        \/ StartsWith(process_lower, protected_lower)
        \/ StartsWith(protected_lower, process_lower)
        \/ /\ exe_path.some
           /\ \/ Contains(exe_lower, protected_lower)
              \/ binary_lower = protected_lower
              \/ StartsWith(binary_lower, protected_lower)
              \/ StartsWith(protected_lower, binary_lower)

\* ProcessMonitor::is_system_process: the static prefixes, compared as written
system_processes ==
    << << "s","y","s","t","e","m","d" >>,
       << "k","t","h","r","e","a","d","d" >>,
       << "k","w","o","r","k","e","r" >>,
       << "k","s","o","f","t","i","r","q","d" >>,
       << "r","c","u","_" >>,
       << "m","i","g","r","a","t","i","o","n" >>,
       << "w","a","t","c","h","d","o","g" >>,
       << "c","p","u","h","p" >>,
       << "k","d","e","v","t","m","p","f","s" >>,
       << "n","e","t","n","s" >>,
       << "k","h","u","n","g","t","a","s","k","d" >>,
       << "o","o","m","_","r","e","a","p","e","r" >>,
       << "w","r","i","t","e","b","a","c","k" >>,
       << "k","c","o","m","p","a","c","t","d" >>,
       << "c","r","y","p","t","o" >>,
       << "k","b","l","o","c","k","d" >>,
       << "m","d" >>,
       << "k","s","w","a","p","d" >>,
       << "i","n","i","t" >>,
       << "b","a","s","h" >>,
       << "s","h" >>,
       << "d","b","u","s" >>,
       << "u","p","s","t","a","r","t" >>,
       << "s","n","a","p","d" >> >>

is_system_process(name) ==
    \E i \in 1..Len(system_processes) : StartsWith(name, system_processes[i])

-----------------------------------------------------------------------------
(* Names used by the environment *)

Brave == << "b","r","a","v","e" >>

BraveBrowser == << "b","r","a","v","e","-","b","r","o","w","s","e","r" >>

Vim == << "v","i","m" >>

Chrome == << "c","h","r","o","m","e" >>

Helper == << "h","e","l","p","e","r" >>

Shotwell == << "s","h","o","t","w","e","l","l" >>

OptBraveHelper == << "/","o","p","t","/","B","r","a","v","e","/","h","e","l","p","e","r" >>

\* the (name, exe_path) pairs a launched program can have
Programs == { [name |-> BraveBrowser, exe_path |-> NoExe],
              [name |-> Vim,          exe_path |-> NoExe] }

Pids == 100..(99 + MaxProcs)

\* the scan-loop specification: more process slots, a program matched by its path
ScanPrograms ==
    Programs \cup { [name |-> Helper,   exe_path |-> SomeExe(OptBraveHelper)],
                    [name |-> Shotwell, exe_path |-> NoExe] }

ScanPids == 100..(99 + MaxScanProcs)

\* replicas a completed lock_shield leaves behind
ScanReplicas == { << Brave >>, << Chrome, Brave >>, << Shotwell >> }

ProcessInfo(pid, prog) == [pid |-> pid, name |-> prog.name, exe_path |-> prog.exe_path]

\* a name of no characters: the process_name add_protected_app stores as given,
\* or the trimmed comm of a process that has cleared its name
EmptyName == << >>

\* the agent's own entry of /proc, which get_all_processes reads like any other
SelfPid == 99

\* programs of the own-process specification: one matched by nothing but an
\* empty name, one with a path, one whose name is empty
SelfPrograms == { [name |-> Vim,       exe_path |-> NoExe],
                  [name |-> Helper,    exe_path |-> SomeExe(OptBraveHelper)],
                  [name |-> EmptyName, exe_path |-> NoExe] }

\* replicas of a protected_apps table with and without an empty process_name
SelfReplicas == { << EmptyName >>, << Chrome, EmptyName >>, << Chrome >> }

\* every ordering of a finite set, as sequences without repetition
Orderings(S) ==
    {s \in [1..Cardinality(S) -> S] : \A i, j \in 1..Cardinality(S) : s[i] = s[j] => i = j}

Reverse(s) == [i \in 1..Len(s) |-> s[Len(s) + 1 - i]]

-----------------------------------------------------------------------------
(* Shield state machine and idle tracker: the pure parts *)

Statuses == {"LOCKED", "ACTIVE", "THREAT_DETECTED"}

\* mutant: the floor of the clamp is missing
ClampTimeout_NoFloor(minutes) ==
    IF minutes < MaxTimeout THEN minutes ELSE MaxTimeout

\* IdleTracker::set_timeout: minutes.min(10).max(1)
ClampTimeout(minutes) ==
    LET lo == IF minutes < MaxTimeout THEN minutes ELSE MaxTimeout
    IN  IF lo > MinTimeout THEN lo ELSE MinTimeout

\* the elapsed-time counters stop here: no timeout is longer
IdleCap == MaxTimeout * SecsPerMinute

Elapse(t, d) == IF t + d < IdleCap THEN t + d ELSE IdleCap

NoCall == [called |-> FALSE]

\* mutant: is_idle does not look at the enabled flag
is_idle_IgnoresEnabled ==
    since_activity >= timeout_minutes * SecsPerMinute

\* IdleTracker::is_idle
is_idle ==
    /\ is_enabled
    /\ since_activity >= timeout_minutes * SecsPerMinute

\* Database::get_protected_apps mapped to process_name: ORDER BY created_at DESC
DbProcessNames == Reverse(db_apps)

\* the any(...) of check_and_kill_protected
is_protected(names, process) ==
    \E k \in 1..Len(names) : process_matches(names[k], process.name, process.exe_path)

NoTimers == [r \in 0..GraceDelay |-> 0]

PendingTimers == {r \in 0..GraceDelay : timers[r] > 0}

\* a write to the status or the flag by somebody else spoils a command in flight
DisturbActivate == act_clean' = (act_pc = "none")

DisturbLock == lock_clean' = (lock_pc = "none")

\* all strings over a set of characters, up to a length
Strings(chars, n) == UNION {[1..k -> chars] : k \in 0..n}

MatchNames == Strings({"a", "A", "SIGMA", "sigma"}, MaxNameLen)

MatchExePaths ==
    {NoExe} \cup {SomeExe(e) : e \in Strings({"a", "A", "SIGMA", "sigma", "/"}, MaxExeLen)}

\* StealthMode::enable: the name given to set_process_name
DecoyName == << "s", "y", "s", "t", "e", "m", "d", "-", "r", "e", "s", "o", "l", "v", "e" >>

\* StealthMode::disable: the name it restores
OriginalName == << "f", "i", "c", "h", "a", "-", "a", "p", "p" >>

NoStealthCall == [call |-> "none", ok |-> TRUE, again |-> FALSE]

\* what /proc/<own pid>/exe reads as: unreadable, or a path ending in the name
SelfExePaths == {NoExe, SomeExe(<< "/" >> \o OriginalName)}

\* toggle_security_policy("policy_4") commands the runtime runs at a time
MaxToggles == 2

ToggleCommands == 1..MaxToggles

NoToggle == [pc |-> "none", is_enabled |-> FALSE]

\* the mutexes of AppState, ProcessMonitor, IdleTracker and Database
Locks == {"shield_status", "is_monitoring", "protected_processes",
          "last_activity", "timeout_minutes", "is_enabled", "conn"}

\* the tasks that take them: the two loops, a revert task, a command handler
LockTasks == {"scan", "idle", "revert", "command"}

\* what the commands and loops of Spec leave alone: no add or remove command
\* in flight, stealth mode off on Linux, every mutex free
ExtInit ==
    /\ refresh_due = "no"
    /\ batch_ok = TRUE
    /\ notified = << >>
    /\ auto_locked = FALSE
    /\ add_pc = "none"
    /\ add_names = << >>
    /\ rem_pc = "none"
    /\ rem_names = << >>
    /\ platform = "linux"
    /\ visible_name = OriginalName
    /\ stealth_last = NoStealthCall
    /\ owner = [l \in Locks |-> "free"]
    /\ lk = [t \in LockTasks |-> << >>]
    /\ policy_enabled = is_enabled
    /\ toggle_cmd = [c \in ToggleCommands |-> NoToggle]

-----------------------------------------------------------------------------
(* Initial state: run() in lib.rs, after AppState::new *)

Init ==
    /\ shield_status = "LOCKED"
    /\ is_monitoring = FALSE
    /\ protected_processes = << >>
    /\ db_apps = << Brave >>
    /\ procs = {}
    /\ scan_pc = "loop"
    /\ protected = << >>
    /\ processes = << >>
    /\ scan_i = 1
    /\ killed = << >>
    /\ signals = {}
    /\ delivered = {}
    /\ reported = << >>
    /\ timers = NoTimers
    /\ since_kill = GraceDelay + 1
    /\ act_pc = "none"
    /\ act_clean = TRUE
    /\ lock_pc = "none"
    /\ lock_clean = TRUE
    /\ lock_names = << >>
    /\ idle_pc = "wait"
    /\ since_activity = 0
    /\ timeout_minutes = ClampTimeout(DefaultTimeout)
    /\ is_enabled \in BOOLEAN
    /\ timeout_arg = DefaultTimeout
    /\ en_pc = "none"
    /\ since_fire = IdleCap
    /\ since_enable = IF is_enabled THEN 0 ELSE IdleCap
    /\ match_call = NoCall
    /\ ExtInit

-----------------------------------------------------------------------------
(* Environment: programs start and exit, time passes *)

Launch(pid, prog) ==
    /\ \A p \in procs : p.pid # pid
    /\ procs' = procs \cup {ProcessInfo(pid, prog)}
    /\ UNCHANGED << match_call, extVars, histVars >>
    /\ UNCHANGED << shieldVars, protected_processes, db_apps, scanVars, timers,
                    since_kill, cmdVars, idleVars >>

Exit(pid) ==
    /\ \E p \in procs : p.pid = pid
    /\ procs' = {p \in procs : p.pid # pid}
    /\ UNCHANGED << match_call, extVars, histVars >>
    /\ UNCHANGED << shieldVars, protected_processes, db_apps, scanVars, timers,
                    since_kill, cmdVars, idleVars >>

\* One second passes.  A due revert timer fires within its second and the scan
\* loop finishes an iteration within its 1000 ms interval; the interval then
\* wakes the scan loop.
Tick ==
    /\ scan_pc = "sleep"
    /\ timers[0] = 0
    /\ timers' = [r \in 0..GraceDelay |-> IF r < GraceDelay THEN timers[r + 1] ELSE 0]
    /\ since_kill' = IF since_kill <= GraceDelay THEN since_kill + 1 ELSE since_kill
    /\ scan_pc' = "loop"
    /\ UNCHANGED << match_call, extVars, histVars >>
    /\ UNCHANGED << shieldVars, protected_processes, db_apps, procs, protected,
                    processes, scan_i, killed, signals, delivered, reported,
                    cmdVars, idleVars >>

\* d seconds pass without recorded user activity; the idle detector, which looks
\* every 5 seconds, has acted before time moves on from an idle state
IdleWait(d) ==
    /\ ~is_idle
    /\ since_activity < IdleCap \/ since_fire < IdleCap \/ since_enable < IdleCap
    /\ since_activity' = Elapse(since_activity, d)
    /\ since_fire' = Elapse(since_fire, d)
    /\ since_enable' = Elapse(since_enable, d)
    /\ UNCHANGED << match_call, extVars, histVars >>
    /\ UNCHANGED << shieldVars, protected_processes, db_apps, procs, scanVars,
                    timers, since_kill, cmdVars, idle_pc, timeout_minutes, is_enabled,
                    timeout_arg, en_pc >>

-----------------------------------------------------------------------------
(* Scan loop: ProcessMonitor::start_monitoring_loop with the on_kill closure *)

\* mutant: the loop scans only while the status is LOCKED
LoopCheck_LockedOnly ==
    /\ scan_pc = "loop"
    /\ scan_pc' = IF is_monitoring /\ shield_status = "LOCKED" THEN "check" ELSE "sleep"
    /\ refresh_due' = IF refresh_due = "failed" THEN "cycle" ELSE refresh_due
    /\ UNCHANGED << match_call, extVars, batch_ok, notified, auto_locked >>
    /\ UNCHANGED << shieldVars, protected_processes, db_apps, procs, protected,
                    processes, scan_i, killed, signals, delivered, reported,
                    timers, since_kill, cmdVars, idleVars >>

\* start_monitoring_loop: if self.is_monitoring() { ... }
LoopCheck ==
    /\ scan_pc = "loop"
    /\ scan_pc' = IF is_monitoring THEN "check" ELSE "sleep"
    /\ refresh_due' = IF refresh_due = "failed" THEN "cycle" ELSE refresh_due
    /\ UNCHANGED << match_call, extVars, batch_ok, notified, auto_locked >>
    /\ UNCHANGED << shieldVars, protected_processes, db_apps, procs, protected,
                    processes, scan_i, killed, signals, delivered, reported,
                    timers, since_kill, cmdVars, idleVars >>

\* mutant: check_and_kill_protected does not test the monitoring flag
CheckMonitoring_NoTest ==
    /\ scan_pc = "check"
    /\ killed' = << >>
    /\ signals' = {}
    /\ delivered' = {}
    /\ reported' = << >>
    /\ processes' = << >>
    /\ scan_i' = 1
    /\ scan_pc' = "clone"
    /\ notified' = << >>
    /\ UNCHANGED << match_call, extVars, refresh_due, batch_ok, auto_locked >>
    /\ UNCHANGED << shieldVars, protected_processes, db_apps, procs, protected,
                    timers, since_kill, cmdVars, idleVars >>

\* check_and_kill_protected: killed = Vec::new(); if !self.is_monitoring() return
CheckMonitoring ==
    /\ scan_pc = "check"
    /\ killed' = << >>
    /\ signals' = {}
    /\ delivered' = {}
    /\ reported' = << >>
    /\ processes' = << >>
    /\ scan_i' = 1
    /\ scan_pc' = IF is_monitoring THEN "clone" ELSE "report"
    /\ notified' = << >>
    /\ UNCHANGED << match_call, extVars, refresh_due, batch_ok, auto_locked >>
    /\ UNCHANGED << shieldVars, protected_processes, db_apps, procs, protected,
                    timers, since_kill, cmdVars, idleVars >>

\* check_and_kill_protected: protected = self.protected_processes.lock().clone()
CloneProtected ==
    /\ scan_pc = "clone"
    /\ protected' = protected_processes
    /\ scan_pc' = "enum"
    /\ UNCHANGED << match_call, extVars, histVars >>
    /\ UNCHANGED << shieldVars, protected_processes, db_apps, procs, processes,
                    scan_i, killed, signals, delivered, reported, timers,
                    since_kill, cmdVars, idleVars >>

\* get_all_processes: the live processes, in the order read_dir yields them
get_all_processes ==
    /\ scan_pc = "enum"
    /\ \E snapshot \in Orderings(procs) :
          /\ processes' = snapshot
          /\ scan_pc' = IF Len(snapshot) = 0 THEN "report" ELSE "kill"
    /\ scan_i' = 1
    /\ UNCHANGED << match_call, extVars, histVars >>
    /\ UNCHANGED << shieldVars, protected_processes, db_apps, procs, protected,
                    killed, signals, delivered, reported, timers, since_kill,
                    cmdVars, idleVars >>

\* kill_process: signal::kill(pid, SIGKILL); Ok removes the process, Err
\* (no such process, or not permitted) leaves the table as it is; a process
\* exists and may signal itself, so the signal to the own pid is delivered
kill_process(pid, ok) ==
    /\ ok => \E p \in procs : p.pid = pid
    /\ pid = SelfPid => ok
    /\ procs' = IF ok THEN {p \in procs : p.pid # pid} ELSE procs
    /\ signals' = signals \cup {pid}
    /\ delivered' = IF ok THEN delivered \cup {pid} ELSE delivered

\* mutant: the loop stops after the first process it has signalled
KillStep_BreakAfterKill ==
    /\ scan_pc = "kill"
    /\ LET process == processes[scan_i]
       IN  IF is_protected(protected, process)
           THEN /\ \E ok \in BOOLEAN :
                     /\ kill_process(process.pid, ok)
                     /\ killed' = IF ok THEN Append(killed, << process.pid, process.name >>)
                                  ELSE killed
                /\ scan_i' = 1
                /\ scan_pc' = "report"
           ELSE /\ UNCHANGED << procs, signals, delivered, killed >>
                /\ scan_i' = IF scan_i < Len(processes) THEN scan_i + 1 ELSE 1
                /\ scan_pc' = IF scan_i < Len(processes) THEN "kill" ELSE "report"
    /\ UNCHANGED << match_call, extVars, histVars >>
    /\ UNCHANGED << shieldVars, protected_processes, db_apps, protected, processes,
                    reported, timers, since_kill, cmdVars, idleVars >>

\* mutant: the pair is pushed whether or not the signal was delivered
KillStep_PushAlways ==
    /\ scan_pc = "kill"
    /\ LET process == processes[scan_i]
       IN  IF is_protected(protected, process)
           THEN \E ok \in BOOLEAN :
                   /\ kill_process(process.pid, ok)
                   /\ killed' = Append(killed, << process.pid, process.name >>)
           ELSE UNCHANGED << procs, signals, delivered, killed >>
    /\ scan_i' = IF scan_i < Len(processes) THEN scan_i + 1 ELSE 1
    /\ scan_pc' = IF scan_i < Len(processes) THEN "kill" ELSE "report"
    /\ UNCHANGED << match_call, extVars, histVars >>
    /\ UNCHANGED << shieldVars, protected_processes, db_apps, protected, processes,
                    reported, timers, since_kill, cmdVars, idleVars >>

\* mutant: the loop looks at the shared replica, not at the clone it took
KillStep_ReadsReplica ==
    /\ scan_pc = "kill"
    /\ LET process == processes[scan_i]
       IN  IF is_protected(protected_processes, process)
           THEN \E ok \in BOOLEAN :
                   /\ kill_process(process.pid, ok)
                   /\ killed' = IF ok THEN Append(killed, << process.pid, process.name >>)
                                ELSE killed
           ELSE UNCHANGED << procs, signals, delivered, killed >>
    /\ scan_i' = IF scan_i < Len(processes) THEN scan_i + 1 ELSE 1
    /\ scan_pc' = IF scan_i < Len(processes) THEN "kill" ELSE "report"
    /\ UNCHANGED << match_call, extVars, histVars >>
    /\ UNCHANGED << shieldVars, protected_processes, db_apps, protected, processes,
                    reported, timers, since_kill, cmdVars, idleVars >>

\* mutant: a signal that cannot be delivered ends the loop task
KillStep_DiesOnFailure ==
    /\ scan_pc = "kill"
    /\ LET process == processes[scan_i]
       IN  IF is_protected(protected, process)
           THEN \E ok \in BOOLEAN :
                   /\ kill_process(process.pid, ok)
                   /\ killed' = IF ok THEN Append(killed, << process.pid, process.name >>)
                                ELSE killed
                   /\ scan_pc' = IF ~ok THEN "dead"
                                 ELSE IF scan_i < Len(processes) THEN "kill" ELSE "report"
           ELSE /\ UNCHANGED << procs, signals, delivered, killed >>
                /\ scan_pc' = IF scan_i < Len(processes) THEN "kill" ELSE "report"
    /\ scan_i' = IF scan_i < Len(processes) THEN scan_i + 1 ELSE 1
    /\ UNCHANGED << match_call, extVars, histVars >>
    /\ UNCHANGED << shieldVars, protected_processes, db_apps, protected, processes,
                    reported, timers, since_kill, cmdVars, idleVars >>

\* one iteration of `for process in processes` in check_and_kill_protected
KillStep ==
    /\ scan_pc = "kill"
    /\ LET process == processes[scan_i]
       IN  IF is_protected(protected, process)
           THEN \E ok \in BOOLEAN :
                   /\ kill_process(process.pid, ok)
                   /\ killed' = IF ok THEN Append(killed, << process.pid, process.name >>)
                                ELSE killed
           ELSE UNCHANGED << procs, signals, delivered, killed >>
    /\ scan_i' = IF scan_i < Len(processes) THEN scan_i + 1 ELSE 1
    /\ scan_pc' = IF scan_i < Len(processes) THEN "kill" ELSE "report"
    /\ UNCHANGED << match_call, extVars, histVars >>
    /\ UNCHANGED << shieldVars, protected_processes, db_apps, protected, processes,
                    reported, timers, since_kill, cmdVars, idleVars >>

\* start_monitoring_loop: `for (pid, name) in killed` has run out
ReportDone ==
    /\ scan_pc = "report"
    /\ scan_i > Len(killed)
    /\ scan_pc' = "sleep"
    /\ scan_i' = 1
    /\ killed' = << >>
    /\ processes' = << >>
    /\ protected' = << >>
    /\ signals' = {}
    /\ delivered' = {}
    /\ reported' = << >>
    /\ notified' = << >>
    /\ UNCHANGED << match_call, extVars, refresh_due, batch_ok, auto_locked >>
    /\ UNCHANGED << shieldVars, protected_processes, db_apps, procs, timers,
                    since_kill, cmdVars, idleVars >>

\* start_monitoring_loop: on_kill(pid, name) for the next entry of killed;
\* on_kill closure, lib.rs: *status = ShieldStatus::THREAT_DETECTED
OnKillStatus ==
    /\ scan_pc = "report"
    /\ scan_i <= Len(killed)
    /\ shield_status' = "THREAT_DETECTED"
    /\ since_kill' = 0
    /\ reported' = Append(reported, killed[scan_i])
    /\ scan_pc' = "spawn"
    /\ DisturbActivate
    /\ DisturbLock
    /\ UNCHANGED << match_call, extVars, histVars >>
    /\ UNCHANGED << is_monitoring, protected_processes, db_apps, procs, protected,
                    processes, scan_i, killed, signals, delivered, timers, act_pc,
                    lock_pc, lock_names, idleVars >>

\* mutant: the closure ends without spawning the revert task
OnKillSpawn_NoTimer ==
    /\ scan_pc = "spawn"
    /\ scan_i' = scan_i + 1
    /\ scan_pc' = "report"
    /\ notified' = Append(notified, killed[scan_i])
    /\ UNCHANGED << match_call, extVars, refresh_due, batch_ok, auto_locked >>
    /\ UNCHANGED << shieldVars, protected_processes, db_apps, procs, protected,
                    processes, killed, signals, delivered, reported, timers,
                    since_kill, cmdVars, idleVars >>

\* on_kill closure, lib.rs: emit the events, spawn the task that sleeps 3 seconds
OnKillSpawn ==
    /\ scan_pc = "spawn"
    /\ timers' = [timers EXCEPT ![GraceDelay] = @ + 1]
    /\ scan_i' = scan_i + 1
    /\ scan_pc' = "report"
    /\ notified' = Append(notified, killed[scan_i])
    /\ UNCHANGED << match_call, extVars, refresh_due, batch_ok, auto_locked >>
    /\ UNCHANGED << shieldVars, protected_processes, db_apps, procs, protected,
                    processes, killed, signals, delivered, reported, since_kill,
                    cmdVars, idleVars >>

\* mutant: the spawned task writes LOCKED without looking at the status
RevertTimer_Unconditional ==
    /\ timers[0] > 0
    /\ timers' = [timers EXCEPT ![0] = @ - 1]
    /\ shield_status' = "LOCKED"
    /\ DisturbActivate
    /\ DisturbLock
    /\ UNCHANGED << match_call, extVars, histVars >>
    /\ UNCHANGED << is_monitoring, protected_processes, db_apps, procs, scanVars,
                    since_kill, act_pc, lock_pc, lock_names, idleVars >>

\* the spawned task after its sleep: if matches!(*status, THREAT_DETECTED) { LOCKED }
RevertTimer ==
    /\ timers[0] > 0
    /\ timers' = [timers EXCEPT ![0] = @ - 1]
    /\ IF shield_status = "THREAT_DETECTED"
       THEN /\ shield_status' = "LOCKED"
            /\ DisturbActivate
            /\ DisturbLock
       ELSE UNCHANGED << shield_status, act_clean, lock_clean >>
    /\ UNCHANGED << match_call, extVars, histVars >>
    /\ UNCHANGED << is_monitoring, protected_processes, db_apps, procs, scanVars,
                    since_kill, act_pc, lock_pc, lock_names,
                    idleVars >>

-----------------------------------------------------------------------------
(* Command activate_shield: AppState::activate_shield, then idle_tracker.reset *)

\* the call, and set_shield_status(ACTIVE)
ActivateStatus ==
    /\ act_pc = "none"
    /\ shield_status' = "ACTIVE"
    /\ act_pc' = "flag"
    /\ act_clean' = TRUE
    /\ DisturbLock
    /\ UNCHANGED << match_call, extVars, histVars >>
    /\ UNCHANGED << is_monitoring, protected_processes, db_apps, procs, scanVars,
                    timers, since_kill, lock_pc, lock_names, idleVars >>

\* mutant: activate_shield forgets the monitoring flag
ActivateFlag_Forgotten ==
    /\ act_pc = "flag"
    /\ act_pc' = "reset"
    /\ UNCHANGED << match_call, extVars, histVars >>
    /\ UNCHANGED << shieldVars, protected_processes, db_apps, procs, scanVars,
                    timers, since_kill, act_clean, lock_pc, lock_clean,
                    lock_names, idleVars >>

\* monitor.set_monitoring(false)
ActivateFlag ==
    /\ act_pc = "flag"
    /\ is_monitoring' = FALSE
    /\ act_pc' = "reset"
    /\ DisturbLock
    /\ UNCHANGED << match_call, extVars, histVars >>
    /\ UNCHANGED << shield_status, protected_processes, db_apps, procs, scanVars,
                    timers, since_kill, act_clean, lock_pc, lock_names, idleVars >>

\* state.idle_tracker.reset(); Ok(())
ActivateReset ==
    /\ act_pc = "reset"
    /\ since_activity' = 0
    /\ act_pc' = "none"
    /\ act_clean' = TRUE
    /\ UNCHANGED << match_call, extVars, histVars >>
    /\ UNCHANGED << shieldVars, protected_processes, db_apps, procs, scanVars,
                    timers, since_kill, lock_pc, lock_clean, lock_names,
                    idle_pc, timeout_minutes, is_enabled, trackVars >>

-----------------------------------------------------------------------------
(* Command lock_shield: AppState::lock_shield, update_protected_processes, log *)

\* the call, and set_shield_status(LOCKED)
LockStatus ==
    /\ lock_pc = "none"
    /\ shield_status' = "LOCKED"
    /\ lock_pc' = "flag"
    /\ lock_clean' = TRUE
    /\ DisturbActivate
    /\ UNCHANGED << match_call, extVars, histVars >>
    /\ UNCHANGED << is_monitoring, protected_processes, db_apps, procs, scanVars,
                    timers, since_kill, act_pc, lock_names, idleVars >>

\* monitor.set_monitoring(true)
LockFlag ==
    /\ lock_pc = "flag"
    /\ is_monitoring' = TRUE
    /\ lock_pc' = "read"
    /\ DisturbActivate
    /\ UNCHANGED << match_call, extVars, histVars >>
    /\ UNCHANGED << shield_status, protected_processes, db_apps, procs, scanVars,
                    timers, since_kill, act_pc, lock_clean,
                    lock_names, idleVars >>

\* update_protected_processes: database.get_protected_apps()? ; an Err makes the
\* command return at once
LockRead ==
    /\ lock_pc = "read"
    /\ \E ok \in BOOLEAN :
          IF ok
          THEN /\ lock_names' = DbProcessNames
               /\ lock_pc' = "write"
               /\ refresh_due' = "no"
               /\ UNCHANGED << lock_clean, batch_ok >>
          ELSE /\ lock_names' = << >>
               /\ lock_pc' = "none"
               /\ lock_clean' = TRUE
               /\ refresh_due' = "failed"
               /\ batch_ok' = (add_pc = "none" /\ rem_pc = "none")
    /\ UNCHANGED << match_call, extVars, notified, auto_locked >>
    /\ UNCHANGED << shieldVars, protected_processes, db_apps, procs, scanVars,
                    timers, since_kill, act_pc, act_clean, idleVars >>

\* mutant: the replica is extended with the list instead of replaced by it
LockWrite_Merge ==
    /\ lock_pc = "write"
    /\ protected_processes' = protected_processes \o lock_names
    /\ lock_names' = << >>
    /\ lock_pc' = "none"
    /\ lock_clean' = TRUE
    /\ batch_ok' = IF add_pc = "none" /\ rem_pc = "none" THEN TRUE ELSE batch_ok
    /\ UNCHANGED << match_call, extVars, refresh_due, notified, auto_locked >>
    /\ UNCHANGED << shieldVars, db_apps, procs, scanVars, timers, since_kill,
                    act_pc, act_clean, idleVars >>

\* monitor.update_protected_processes(process_names), the log entry, Ok(())
LockWrite ==
    /\ lock_pc = "write"
    /\ protected_processes' = lock_names
    /\ lock_names' = << >>
    /\ lock_pc' = "none"
    /\ lock_clean' = TRUE
    /\ batch_ok' = IF add_pc = "none" /\ rem_pc = "none" THEN TRUE ELSE batch_ok
    /\ UNCHANGED << match_call, extVars, refresh_due, notified, auto_locked >>
    /\ UNCHANGED << shieldVars, db_apps, procs, scanVars, timers, since_kill,
                    act_pc, act_clean, idleVars >>

-----------------------------------------------------------------------------
(* Commands add_protected_app and remove_protected_app: the statement on the
   protected_apps table, then update_protected_processes *)

\* the process names a command can be given
AppNames == {Brave, Chrome}

Without(s, name) == SelectSeq(s, LAMBDA x : x # name)

\* Database::add_protected_app: INSERT, refused when the process_name is there
\* already (UNIQUE) or when the database fails; the command then returns Err
AddInsert(name) ==
    /\ add_pc = "none"
    /\ \E ok \in BOOLEAN :
          /\ ok => \A k \in 1..Len(db_apps) : db_apps[k] # name
          /\ IF ok
             THEN /\ db_apps' = Append(db_apps, name)
                  /\ add_pc' = "read"
                  /\ UNCHANGED batch_ok
             ELSE /\ UNCHANGED << db_apps, add_pc >>
                  /\ batch_ok' = (lock_pc = "none" /\ rem_pc = "none")
    /\ UNCHANGED << shieldVars, protected_processes, procs, scanVars, timers,
                    since_kill, cmdVars, idleVars, match_call, refresh_due, notified,
                    auto_locked, add_names, rem_pc, rem_names, stealthVars, lockVars, toggleVars >>

\* update_protected_processes: database.get_protected_apps()?
AddRead ==
    /\ add_pc = "read"
    /\ \E ok \in BOOLEAN :
          IF ok
          THEN /\ add_names' = DbProcessNames
               /\ add_pc' = "write"
               /\ refresh_due' = "no"
               /\ UNCHANGED batch_ok
          ELSE /\ add_names' = << >>
               /\ add_pc' = "none"
               /\ refresh_due' = "failed"
               /\ batch_ok' = (lock_pc = "none" /\ rem_pc = "none")
    /\ UNCHANGED << shieldVars, protected_processes, db_apps, procs, scanVars,
                    timers, since_kill, cmdVars, idleVars, match_call, notified,
                    auto_locked, rem_pc, rem_names, stealthVars, lockVars, toggleVars >>

\* monitor.update_protected_processes(process_names), the log entry, the events
AddWrite ==
    /\ add_pc = "write"
    /\ protected_processes' = add_names
    /\ add_names' = << >>
    /\ add_pc' = "none"
    /\ batch_ok' = IF lock_pc = "none" /\ rem_pc = "none" THEN TRUE ELSE batch_ok
    /\ DisturbLock
    /\ UNCHANGED << shieldVars, db_apps, procs, scanVars, timers, since_kill,
                    act_pc, act_clean, lock_pc, lock_names, idleVars, match_call,
                    refresh_due, notified, auto_locked, rem_pc, rem_names,
                    stealthVars, lockVars, toggleVars >>

\* Database::remove_protected_app: DELETE of the row, if there is one; an Err
\* of the database makes the command return
RemoveDelete(name) ==
    /\ rem_pc = "none"
    /\ \E ok \in BOOLEAN :
          IF ok
          THEN /\ db_apps' = Without(db_apps, name)
               /\ rem_pc' = "read"
               /\ UNCHANGED batch_ok
          ELSE /\ UNCHANGED << db_apps, rem_pc >>
               /\ batch_ok' = (lock_pc = "none" /\ add_pc = "none")
    /\ UNCHANGED << shieldVars, protected_processes, procs, scanVars, timers,
                    since_kill, cmdVars, idleVars, match_call, refresh_due, notified,
                    auto_locked, add_pc, add_names, rem_names, stealthVars, lockVars, toggleVars >>

\* update_protected_processes: database.get_protected_apps()?
RemoveRead ==
    /\ rem_pc = "read"
    /\ \E ok \in BOOLEAN :
          IF ok
          THEN /\ rem_names' = DbProcessNames
               /\ rem_pc' = "write"
               /\ refresh_due' = "no"
               /\ UNCHANGED batch_ok
          ELSE /\ rem_names' = << >>
               /\ rem_pc' = "none"
               /\ refresh_due' = "failed"
               /\ batch_ok' = (lock_pc = "none" /\ add_pc = "none")
    /\ UNCHANGED << shieldVars, protected_processes, db_apps, procs, scanVars,
                    timers, since_kill, cmdVars, idleVars, match_call, notified,
                    auto_locked, add_pc, add_names, stealthVars, lockVars, toggleVars >>

\* monitor.update_protected_processes(process_names), the event
RemoveWrite ==
    /\ rem_pc = "write"
    /\ protected_processes' = rem_names
    /\ rem_names' = << >>
    /\ rem_pc' = "none"
    /\ batch_ok' = IF lock_pc = "none" /\ add_pc = "none" THEN TRUE ELSE batch_ok
    /\ DisturbLock
    /\ UNCHANGED << shieldVars, db_apps, procs, scanVars, timers, since_kill,
                    act_pc, act_clean, lock_pc, lock_names, idleVars, match_call,
                    refresh_due, notified, auto_locked, add_pc, add_names,
                    stealthVars, lockVars, toggleVars >>

-----------------------------------------------------------------------------
(* Stealth mode: StealthMode::enable and disable, called by run() and by
   toggle_security_policy for policy_2 with the value read from the database *)

\* prctl(PR_SET_NAME) keeps at most the first 15 bytes of the name
TaskCommLen == 15

Take(s, n) == SubSeq(s, 1, IF Len(s) < n THEN Len(s) ELSE n)

\* set_process_name: prctl on Linux, Err elsewhere
set_process_name(name) ==
    IF platform = "linux"
    THEN visible_name' = Take(name, TaskCommLen)
    ELSE UNCHANGED visible_name

\* mutant: a second enable() gives the name back
enable_Flips ==
    /\ IF visible_name = DecoyName
       THEN set_process_name(OriginalName)
       ELSE set_process_name(DecoyName)
    /\ stealth_last' = [call |-> "enable", ok |-> platform = "linux",
                        again |-> stealth_last.call = "enable"]
    /\ UNCHANGED << shieldVars, protected_processes, db_apps, procs, scanVars,
                    timers, since_kill, cmdVars, idleVars, match_call, histVars,
                    replVars, platform, lockVars, toggleVars >>

\* StealthMode::enable
enable ==
    /\ set_process_name(DecoyName)
    /\ stealth_last' = [call |-> "enable", ok |-> platform = "linux",
                        again |-> stealth_last.call = "enable"]
    /\ UNCHANGED << shieldVars, protected_processes, db_apps, procs, scanVars,
                    timers, since_kill, cmdVars, idleVars, match_call, histVars,
                    replVars, platform, lockVars, toggleVars >>

\* StealthMode::disable
disable ==
    /\ set_process_name(OriginalName)
    /\ stealth_last' = [call |-> "disable", ok |-> platform = "linux",
                        again |-> stealth_last.call = "disable"]
    /\ UNCHANGED << shieldVars, protected_processes, db_apps, procs, scanVars,
                    timers, since_kill, cmdVars, idleVars, match_call, histVars,
                    replVars, platform, lockVars, toggleVars >>

-----------------------------------------------------------------------------
(* Mutexes: the order in which each operation locks and unlocks them.  A
   std::sync::Mutex guard is dropped at the end of its statement when it is a
   temporary and at the end of its block, in reverse order of declaration,
   when it is bound with let. *)

\* a mutex locked, used and dropped before anything else is locked
Hold(m) == << << "lock", m >>, << "unlock", m >> >>

\* IdleTracker::is_idle: is_enabled(), then last and timeout bound together
is_idle_locks(enabled) ==
    Hold("is_enabled")
      \o (IF enabled
          THEN << << "lock", "last_activity" >>, << "lock", "timeout_minutes" >>,
                  << "unlock", "timeout_minutes" >>, << "unlock", "last_activity" >> >>
          ELSE << >>)

\* one iteration of IdleTracker::start_monitoring_loop with the on_idle closure:
\* the status block, the log row, then self.reset()
idle_loop_locks(enabled, idle) ==
    is_idle_locks(enabled)
      \o (IF idle
          THEN Hold("shield_status") \o Hold("conn") \o Hold("last_activity")
          ELSE << >>)

\* the on_kill closure: last attempt, two log rows, the status block
on_kill_locks ==
    Hold("conn") \o Hold("conn") \o Hold("conn") \o Hold("shield_status")

\* one iteration of ProcessMonitor::start_monitoring_loop: is_monitoring(),
\* check_and_kill_protected (is_monitoring() again, the clone), on_kill per kill
scan_loop_locks(on, still_on, kills) ==
    Hold("is_monitoring")
      \o (IF on THEN Hold("is_monitoring") ELSE << >>)
      \o (IF on /\ still_on THEN Hold("protected_processes") ELSE << >>)
      \o (IF on /\ still_on /\ kills > 0 THEN on_kill_locks ELSE << >>)
      \o (IF on /\ still_on /\ kills > 1 THEN on_kill_locks ELSE << >>)

\* AppState::update_protected_processes
update_protected_processes_locks(ok) ==
    Hold("conn") \o (IF ok THEN Hold("protected_processes") ELSE << >>)

\* mutant: set_enabled keeps the flag locked while it resets the timer
set_enabled_locks_KeepsFlag(enabled) ==
    IF enabled
    THEN << << "lock", "is_enabled" >>, << "lock", "last_activity" >>,
            << "unlock", "last_activity" >>, << "unlock", "is_enabled" >> >>
    ELSE Hold("is_enabled")

\* IdleTracker::set_enabled: drop(is_enabled) before self.reset()
set_enabled_locks(enabled) ==
    Hold("is_enabled") \o (IF enabled THEN Hold("last_activity") ELSE << >>)

\* the command handlers of lib.rs
CommandOps ==
    {   Hold("shield_status"),
        Hold("shield_status") \o Hold("is_monitoring") \o Hold("last_activity"),
        Hold("timeout_minutes") \o Hold("conn"),
        Hold("timeout_minutes"),
        Hold("last_activity") }
    \cup { Hold("shield_status") \o Hold("is_monitoring")
             \o update_protected_processes_locks(ok)
             \o (IF ok THEN Hold("conn") ELSE << >>) : ok \in BOOLEAN }
    \cup { Hold("conn") \o update_protected_processes_locks(ok)
             \o (IF ok THEN Hold("conn") ELSE << >>) : ok \in BOOLEAN }
    \cup { Hold("conn") \o update_protected_processes_locks(ok) : ok \in BOOLEAN }
    \cup { Hold("conn") \o Hold("conn") \o set_enabled_locks(enabled)
             \o (IF enabled THEN Hold("last_activity") ELSE << >>) : enabled \in BOOLEAN }

\* what each task can run next
TaskOps(t) ==
    CASE t = "scan" ->
           {scan_loop_locks(on, still_on, kills) :
               on \in BOOLEAN, still_on \in BOOLEAN, kills \in 0..2}
      [] t = "idle" ->
           {idle_loop_locks(FALSE, FALSE), idle_loop_locks(TRUE, FALSE),
            idle_loop_locks(TRUE, TRUE)}
      [] t = "revert" -> {Hold("shield_status")}
      [] OTHER -> CommandOps

\* the mutexes a task holds
Held(t) == {m \in Locks : owner[m] = t}

\* the task is at lock() on a mutex that is held
Waits(t) ==
    /\ lk[t] # << >>
    /\ Head(lk[t])[1] = "lock"
    /\ owner[Head(lk[t])[2]] # "free"

\* a task at rest begins an operation
StartOp(t) ==
    /\ lk[t] = << >>
    /\ \E ops \in TaskOps(t) : lk' = [lk EXCEPT ![t] = ops]
    /\ UNCHANGED << shieldVars, protected_processes, db_apps, procs, scanVars,
                    timers, since_kill, cmdVars, idleVars, match_call, histVars,
                    replVars, stealthVars, toggleVars, owner >>

\* Mutex::lock returns once the mutex is free
Acquire(t) ==
    /\ lk[t] # << >>
    /\ Head(lk[t])[1] = "lock"
    /\ owner[Head(lk[t])[2]] = "free"
    /\ owner' = [owner EXCEPT ![Head(lk[t])[2]] = t]
    /\ lk' = [lk EXCEPT ![t] = Tail(@)]
    /\ UNCHANGED << shieldVars, protected_processes, db_apps, procs, scanVars,
                    timers, since_kill, cmdVars, idleVars, match_call, histVars,
                    replVars, stealthVars, toggleVars >>

\* the guard is dropped
Release(t) ==
    /\ lk[t] # << >>
    /\ Head(lk[t])[1] = "unlock"
    /\ owner' = [owner EXCEPT ![Head(lk[t])[2]] = "free"]
    /\ lk' = [lk EXCEPT ![t] = Tail(@)]
    /\ UNCHANGED << shieldVars, protected_processes, db_apps, procs, scanVars,
                    timers, since_kill, cmdVars, idleVars, match_call, histVars,
                    replVars, stealthVars, toggleVars >>

-----------------------------------------------------------------------------
(* Idle detector: IdleTracker::start_monitoring_loop with the on_idle closure *)

\* if self.is_idle() { ... }
IdleCheck ==
    /\ idle_pc = "wait"
    /\ is_idle
    /\ idle_pc' = "on_idle"
    /\ UNCHANGED << match_call, extVars, histVars >>
    /\ UNCHANGED << shieldVars, protected_processes, db_apps, procs, scanVars,
                    timers, since_kill, cmdVars, since_activity, timeout_minutes,
                    is_enabled, trackVars >>

\* on_idle closure, lib.rs: *status = ShieldStatus::LOCKED, log, emit
OnIdle ==
    /\ idle_pc = "on_idle"
    /\ shield_status' = "LOCKED"
    /\ idle_pc' = "reset"
    /\ since_fire' = 0
    /\ DisturbActivate
    /\ DisturbLock
    /\ auto_locked' = TRUE
    /\ UNCHANGED << match_call, extVars, refresh_due, batch_ok, notified >>
    /\ UNCHANGED << is_monitoring, protected_processes, db_apps, procs, scanVars,
                    timers, since_kill, act_pc, lock_pc, lock_names, since_activity,
                    timeout_minutes, is_enabled, timeout_arg, en_pc, since_enable >>

\* mutant: last_activity is not reset after the callback
IdleReset_Skipped ==
    /\ idle_pc = "reset"
    /\ idle_pc' = "wait"
    /\ auto_locked' = FALSE
    /\ UNCHANGED << shieldVars, protected_processes, db_apps, procs, scanVars,
                    timers, since_kill, cmdVars, since_activity, timeout_minutes,
                    is_enabled, trackVars, match_call, extVars, refresh_due, batch_ok, notified >>

\* self.reset() after the callback
IdleReset ==
    /\ idle_pc = "reset"
    /\ since_activity' = 0
    /\ idle_pc' = "wait"
    /\ auto_locked' = FALSE
    /\ UNCHANGED << match_call, extVars, refresh_due, batch_ok, notified >>
    /\ UNCHANGED << shieldVars, protected_processes, db_apps, procs, scanVars,
                    timers, since_kill, cmdVars, timeout_minutes, is_enabled,
                    trackVars >>

-----------------------------------------------------------------------------
(* Specification *)

Next ==
    \/ \E pid \in Pids, prog \in Programs : Launch(pid, prog)
    \/ \E pid \in Pids : Exit(pid)
    \/ Tick
    \/ IdleWait(timeout_minutes * SecsPerMinute)
    \/ LoopCheck
    \/ CheckMonitoring
    \/ CloneProtected
    \/ get_all_processes
    \/ KillStep
    \/ ReportDone
    \/ OnKillStatus
    \/ OnKillSpawn
    \/ RevertTimer
    \/ ActivateStatus
    \/ ActivateFlag
    \/ ActivateReset
    \/ LockStatus
    \/ LockFlag
    \/ LockRead
    \/ LockWrite
    \/ IdleCheck
    \/ OnIdle
    \/ IdleReset

Spec == Init /\ [][Next]_vars

\* The idle tracker with the commands that set it up, and the idle detector.
\* minutes values given for the timeout: the ends of the range, both sides of
\* each limit, and the extremes of the integers the checker can hold
TimeoutInputs == {-2147483647, 0, 1, 2, 11, 2147483647}

\* command set_idle_timeout: clamp, IdleTracker::set_timeout (which clamps), save
set_idle_timeout(minutes) ==
    /\ timeout_minutes' = ClampTimeout(ClampTimeout(minutes))
    /\ timeout_arg' = minutes
    /\ UNCHANGED << shieldVars, protected_processes, db_apps, procs, scanVars,
                    timers, since_kill, cmdVars, idle_pc, since_activity, is_enabled,
                    en_pc, since_fire, since_enable, match_call, extVars, histVars >>

\* command reset_idle_timer: IdleTracker::reset
reset_idle_timer ==
    /\ since_activity' = 0
    /\ UNCHANGED << shieldVars, protected_processes, db_apps, procs, scanVars,
                    timers, since_kill, cmdVars, idle_pc, timeout_minutes, is_enabled,
                    trackVars, match_call, extVars, histVars >>

\* IdleTracker::set_enabled, called by toggle_security_policy for policy_4:
\* *is_enabled = enabled, and the lock is dropped; with one command at a time
\* the argument is the value toggle_security_policy has stored and read back
SetEnabledFlag(enabled) ==
    /\ en_pc = "none"
    /\ is_enabled' = enabled
    /\ policy_enabled' = enabled
    /\ since_enable' = IF enabled THEN 0 ELSE since_enable
    /\ en_pc' = IF enabled THEN "reset" ELSE "none"
    /\ UNCHANGED << shieldVars, protected_processes, db_apps, procs, scanVars,
                    timers, since_kill, cmdVars, idle_pc, since_activity,
                    timeout_minutes, timeout_arg, since_fire, match_call,
                    replVars, stealthVars, lockVars, toggle_cmd, histVars >>

\* IdleTracker::set_enabled: if enabled { self.reset() }
SetEnabledReset ==
    /\ en_pc = "reset"
    /\ since_activity' = 0
    /\ en_pc' = "toggle"
    /\ UNCHANGED << shieldVars, protected_processes, db_apps, procs, scanVars,
                    timers, since_kill, cmdVars, idle_pc, timeout_minutes, is_enabled,
                    timeout_arg, since_fire, since_enable, match_call, extVars, histVars >>

\* toggle_security_policy: if is_enabled { state.idle_tracker.reset() }
ToggleReset ==
    /\ en_pc = "toggle"
    /\ since_activity' = 0
    /\ en_pc' = "none"
    /\ UNCHANGED << shieldVars, protected_processes, db_apps, procs, scanVars,
                    timers, since_kill, cmdVars, idle_pc, timeout_minutes, is_enabled,
                    timeout_arg, since_fire, since_enable, match_call, extVars, histVars >>

\* run(): the stored idle_timeout is given to set_timeout, tracking is enabled
\* if policy_4 is; the shield is as AppState::new leaves it
TrackerInit ==
    /\ shield_status = "LOCKED"
    /\ is_monitoring = FALSE
    /\ protected_processes = << >>
    /\ db_apps = << Brave >>
    /\ procs = {}
    /\ scan_pc = "loop"
    /\ protected = << >>
    /\ processes = << >>
    /\ scan_i = 1
    /\ killed = << >>
    /\ signals = {}
    /\ delivered = {}
    /\ reported = << >>
    /\ timers = NoTimers
    /\ since_kill = GraceDelay + 1
    /\ act_pc = "none"
    /\ act_clean = TRUE
    /\ lock_pc = "none"
    /\ lock_clean = TRUE
    /\ lock_names = << >>
    /\ idle_pc = "wait"
    /\ since_activity = 0
    /\ timeout_arg \in TimeoutInputs \cup {DefaultTimeout}
    /\ timeout_minutes = ClampTimeout(timeout_arg)
    /\ is_enabled \in BOOLEAN
    /\ en_pc = "none"
    /\ since_fire = IdleCap
    /\ since_enable = IF is_enabled THEN 0 ELSE IdleCap
    /\ match_call = NoCall
    /\ ExtInit

TrackerNext ==
    \/ IdleWait(SecsPerMinute)
    \/ \E minutes \in TimeoutInputs : set_idle_timeout(minutes)
    \/ reset_idle_timer
    \/ \E enabled \in BOOLEAN : SetEnabledFlag(enabled)
    \/ SetEnabledReset
    \/ ToggleReset
    \/ IdleCheck
    \/ OnIdle
    \/ IdleReset

TrackerSpec == TrackerInit /\ [][TrackerNext]_vars

\* The matcher on its own: process_matches is a function of its arguments
\* only; the arguments are chosen at the start and the call is made once.
MatchCall ==
    /\ ~match_call.called
    /\ "protected_name" \in DOMAIN match_call
    /\ match_call' = [match_call EXCEPT
                         !.called = TRUE,
                         !.result = process_matches(match_call.protected_name,
                                                    match_call.process_name,
                                                    match_call.exe_path)]
    /\ UNCHANGED << shieldVars, protected_processes, db_apps, procs, scanVars,
                    timers, since_kill, cmdVars, idleVars, extVars, histVars >>

MatchInit ==
    /\ shield_status = "LOCKED"
    /\ is_monitoring = FALSE
    /\ protected_processes = << >>
    /\ db_apps = << Brave >>
    /\ procs = {}
    /\ scan_pc = "loop"
    /\ protected = << >>
    /\ processes = << >>
    /\ scan_i = 1
    /\ killed = << >>
    /\ signals = {}
    /\ delivered = {}
    /\ reported = << >>
    /\ timers = NoTimers
    /\ since_kill = GraceDelay + 1
    /\ act_pc = "none"
    /\ act_clean = TRUE
    /\ lock_pc = "none"
    /\ lock_clean = TRUE
    /\ lock_names = << >>
    /\ idle_pc = "wait"
    /\ since_activity = 0
    /\ timeout_minutes = ClampTimeout(DefaultTimeout)
    /\ is_enabled = FALSE
    /\ timeout_arg = DefaultTimeout
    /\ en_pc = "none"
    /\ since_fire = IdleCap
    /\ since_enable = IdleCap
    /\ match_call \in [called : {FALSE}, result : {FALSE}, protected_name : MatchNames,
                        process_name : MatchNames, exe_path : MatchExePaths]
    /\ ExtInit

MatchNext == MatchCall

MatchSpec == MatchInit /\ [][MatchNext]_vars

\* The scan loop on its own, from the state a completed lock_shield leaves:
\* LOCKED, monitoring on, replica loaded; no command and no idle timeout follows.
ScanInit ==
    /\ shield_status = "LOCKED"
    /\ is_monitoring = TRUE
    /\ protected_processes \in ScanReplicas
    /\ db_apps = Reverse(protected_processes)
    /\ procs = {}
    /\ scan_pc = "loop"
    /\ protected = << >>
    /\ processes = << >>
    /\ scan_i = 1
    /\ killed = << >>
    /\ signals = {}
    /\ delivered = {}
    /\ reported = << >>
    /\ timers = NoTimers
    /\ since_kill = GraceDelay + 1
    /\ act_pc = "none"
    /\ act_clean = TRUE
    /\ lock_pc = "none"
    /\ lock_clean = TRUE
    /\ lock_names = << >>
    /\ idle_pc = "wait"
    /\ since_activity = 0
    /\ timeout_minutes = ClampTimeout(DefaultTimeout)
    /\ is_enabled = FALSE
    /\ timeout_arg = DefaultTimeout
    /\ en_pc = "none"
    /\ since_fire = IdleCap
    /\ since_enable = IdleCap
    /\ match_call = NoCall
    /\ ExtInit

ScanNext ==
    \/ \E pid \in ScanPids, prog \in ScanPrograms : Launch(pid, prog)
    \/ \E pid \in ScanPids : Exit(pid)
    \/ Tick
    \/ LoopCheck
    \/ CheckMonitoring
    \/ CloneProtected
    \/ get_all_processes
    \/ KillStep
    \/ ReportDone
    \/ OnKillStatus
    \/ OnKillSpawn
    \/ RevertTimer

ScanSpec == ScanInit /\ [][ScanNext]_vars

\* Time passes, a due timer task runs, and the scan loop task, once woken by
\* its interval, runs each of its steps: the runtime schedules every ready task.
ScanFairness ==
    /\ WF_vars(Tick)
    /\ WF_vars(RevertTimer)
    /\ WF_vars(LoopCheck)
    /\ WF_vars(CheckMonitoring)
    /\ WF_vars(CloneProtected)
    /\ WF_vars(get_all_processes)
    /\ WF_vars(KillStep)
    /\ WF_vars(ReportDone)
    /\ WF_vars(OnKillStatus)
    /\ WF_vars(OnKillSpawn)

\* the same loop with the process slots and programs of Spec and one replica
LiveInit == ScanInit /\ protected_processes = << Brave >>

LiveNext ==
    \/ \E pid \in Pids, prog \in Programs : Launch(pid, prog)
    \/ \E pid \in Pids : Exit(pid)
    \/ Tick
    \/ LoopCheck
    \/ CheckMonitoring
    \/ CloneProtected
    \/ get_all_processes
    \/ KillStep
    \/ ReportDone
    \/ OnKillStatus
    \/ OnKillSpawn
    \/ RevertTimer

LiveSpec == LiveInit /\ [][LiveNext]_vars /\ ScanFairness

\* The commands on their own, from the state run() leaves: the handlers of
\* activate_shield, lock_shield, add_protected_app and remove_protected_app run
\* concurrently on the async runtime; no loop writes the status.
CommandInit == Init /\ is_enabled = FALSE

CommandNext ==
    \/ ActivateStatus
    \/ ActivateFlag
    \/ ActivateReset
    \/ LockStatus
    \/ LockFlag
    \/ LockRead
    \/ LockWrite
    \/ \E name \in AppNames : AddInsert(name)
    \/ AddRead
    \/ AddWrite
    \/ \E name \in AppNames : RemoveDelete(name)
    \/ RemoveRead
    \/ RemoveWrite

CommandSpec == CommandInit /\ [][CommandNext]_vars

\* The scan loop with the commands that change the protected_apps table, from
\* the state a completed lock_shield leaves; the one protected app is removed
\* and added again
ReplicaInit == ScanInit /\ protected_processes = << Brave >>

ReplicaNext ==
    \/ \E pid \in Pids, prog \in Programs : Launch(pid, prog)
    \/ \E pid \in Pids : Exit(pid)
    \/ Tick
    \/ LoopCheck
    \/ CheckMonitoring
    \/ CloneProtected
    \/ get_all_processes
    \/ KillStep
    \/ ReportDone
    \/ OnKillStatus
    \/ OnKillSpawn
    \/ RevertTimer
    \/ AddInsert(Brave)
    \/ AddRead
    \/ AddWrite
    \/ RemoveDelete(Brave)
    \/ RemoveRead
    \/ RemoveWrite

ReplicaSpec == ReplicaInit /\ [][ReplicaNext]_vars

\* The policies toggle_security_policy acts on: stealth mode (policy_2) and
\* the session lock on idle (policy_4), on either kind of platform
PolicyInit ==
    /\ shield_status = "LOCKED"
    /\ is_monitoring = FALSE
    /\ protected_processes = << >>
    /\ db_apps = << Brave >>
    /\ procs = {}
    /\ scan_pc = "loop"
    /\ protected = << >>
    /\ processes = << >>
    /\ scan_i = 1
    /\ killed = << >>
    /\ signals = {}
    /\ delivered = {}
    /\ reported = << >>
    /\ timers = NoTimers
    /\ since_kill = GraceDelay + 1
    /\ act_pc = "none"
    /\ act_clean = TRUE
    /\ lock_pc = "none"
    /\ lock_clean = TRUE
    /\ lock_names = << >>
    /\ idle_pc = "wait"
    /\ since_activity = 0
    /\ timeout_arg = DefaultTimeout
    /\ timeout_minutes = ClampTimeout(timeout_arg)
    /\ is_enabled \in BOOLEAN
    /\ en_pc = "none"
    /\ since_fire = IdleCap
    /\ since_enable = IF is_enabled THEN 0 ELSE IdleCap
    /\ match_call = NoCall
    /\ refresh_due = "no"
    /\ batch_ok = TRUE
    /\ notified = << >>
    /\ auto_locked = FALSE
    /\ add_pc = "none"
    /\ add_names = << >>
    /\ rem_pc = "none"
    /\ rem_names = << >>
    /\ platform \in {"linux", "other"}
    /\ visible_name = OriginalName
    /\ stealth_last = NoStealthCall
    /\ owner = [l \in Locks |-> "free"]
    /\ lk = [t \in LockTasks |-> << >>]
    /\ policy_enabled = is_enabled
    /\ toggle_cmd = [c \in ToggleCommands |-> NoToggle]

PolicyNext ==
    \/ enable
    \/ disable
    \/ \E enabled \in BOOLEAN : SetEnabledFlag(enabled)
    \/ SetEnabledReset
    \/ ToggleReset
    \/ IdleWait(SecsPerMinute)
    \/ IdleCheck
    \/ OnIdle
    \/ IdleReset

PolicySpec == PolicyInit /\ [][PolicyNext]_vars

\* toggle_security_policy("policy_4"), one handler per command in flight; the
\* handlers run concurrently on the async runtime and each database call and
\* each tracker call takes and drops its own mutex.

\* Database::toggle_policy: UPDATE ... SET enabled = NOT enabled
toggle_policy(c) ==
    /\ toggle_cmd[c].pc = "none"
    /\ policy_enabled' = ~policy_enabled
    /\ toggle_cmd' = [toggle_cmd EXCEPT ![c].pc = "read"]
    /\ UNCHANGED << shieldVars, protected_processes, db_apps, procs, scanVars,
                    timers, since_kill, cmdVars, idleVars, match_call,
                    replVars, stealthVars, lockVars, histVars >>

\* let is_enabled = state.database.is_policy_enabled(&id)?: the value stored
\* now, or the command returns the error
is_policy_enabled(c, ok) ==
    /\ toggle_cmd[c].pc = "read"
    /\ toggle_cmd' = [toggle_cmd EXCEPT ![c] =
                         IF ok THEN [pc |-> "set", is_enabled |-> policy_enabled]
                         ELSE NoToggle]
    /\ UNCHANGED << shieldVars, protected_processes, db_apps, procs, scanVars,
                    timers, since_kill, cmdVars, idleVars, match_call,
                    replVars, stealthVars, lockVars, policy_enabled, histVars >>

\* state.idle_tracker.set_enabled(is_enabled): *is_enabled = enabled
set_enabled(c) ==
    /\ toggle_cmd[c].pc = "set"
    /\ is_enabled' = toggle_cmd[c].is_enabled
    /\ since_enable' = IF toggle_cmd[c].is_enabled THEN 0 ELSE since_enable
    /\ toggle_cmd' = [toggle_cmd EXCEPT ![c] =
                         IF toggle_cmd[c].is_enabled THEN [@ EXCEPT !.pc = "reset"]
                         ELSE NoToggle]
    /\ UNCHANGED << shieldVars, protected_processes, db_apps, procs, scanVars,
                    timers, since_kill, cmdVars, idle_pc, since_activity,
                    timeout_minutes, timeout_arg, en_pc, since_fire, match_call,
                    replVars, stealthVars, lockVars, policy_enabled, histVars >>

\* IdleTracker::set_enabled: if enabled { drop(is_enabled); self.reset() }
set_enabled_reset(c) ==
    /\ toggle_cmd[c].pc = "reset"
    /\ since_activity' = 0
    /\ toggle_cmd' = [toggle_cmd EXCEPT ![c].pc = "toggle"]
    /\ UNCHANGED << shieldVars, protected_processes, db_apps, procs, scanVars,
                    timers, since_kill, cmdVars, idle_pc, timeout_minutes, is_enabled,
                    trackVars, match_call, replVars, stealthVars, lockVars,
                    policy_enabled, histVars >>

\* toggle_security_policy: if is_enabled { state.idle_tracker.reset() }; Ok(())
toggle_reset(c) ==
    /\ toggle_cmd[c].pc = "toggle"
    /\ since_activity' = 0
    /\ toggle_cmd' = [toggle_cmd EXCEPT ![c] = NoToggle]
    /\ UNCHANGED << shieldVars, protected_processes, db_apps, procs, scanVars,
                    timers, since_kill, cmdVars, idle_pc, timeout_minutes, is_enabled,
                    trackVars, match_call, replVars, stealthVars, lockVars,
                    policy_enabled, histVars >>

\* The toggle commands with the idle detector they switch, from the state
\* run() leaves: tracking enabled exactly if policy_4 is stored as enabled
ToggleInit == Init

ToggleNext ==
    \/ \E c \in ToggleCommands : toggle_policy(c)
    \/ \E c \in ToggleCommands, ok \in BOOLEAN : is_policy_enabled(c, ok)
    \/ \E c \in ToggleCommands : set_enabled(c)
    \/ \E c \in ToggleCommands : set_enabled_reset(c)
    \/ \E c \in ToggleCommands : toggle_reset(c)
    \/ IdleWait(SecsPerMinute)
    \/ IdleCheck
    \/ OnIdle
    \/ IdleReset

ToggleSpec == ToggleInit /\ [][ToggleNext]_vars

\* The tasks as users of the mutexes only
LockInit == Init /\ is_enabled = FALSE

LockNext ==
    \/ \E t \in LockTasks : StartOp(t)
    \/ \E t \in LockTasks : Acquire(t)
    \/ \E t \in LockTasks : Release(t)

LockSpec == LockInit /\ [][LockNext]_vars

\* The scan loop with the agent's own process in the table, from the state a
\* completed lock_shield leaves.  SIGKILL ends the process that receives it:
\* once the own pid is gone, no task of the agent takes another step.
Alive == \E p \in procs : p.pid = SelfPid

SelfInit ==
    /\ shield_status = "LOCKED"
    /\ is_monitoring = TRUE
    /\ protected_processes \in SelfReplicas
    /\ db_apps = Reverse(protected_processes)
    /\ \E e \in SelfExePaths :
          procs = {[pid |-> SelfPid, name |-> OriginalName, exe_path |-> e]}
    /\ scan_pc = "loop"
    /\ protected = << >>
    /\ processes = << >>
    /\ scan_i = 1
    /\ killed = << >>
    /\ signals = {}
    /\ delivered = {}
    /\ reported = << >>
    /\ timers = NoTimers
    /\ since_kill = GraceDelay + 1
    /\ act_pc = "none"
    /\ act_clean = TRUE
    /\ lock_pc = "none"
    /\ lock_clean = TRUE
    /\ lock_names = << >>
    /\ idle_pc = "wait"
    /\ since_activity = 0
    /\ timeout_minutes = ClampTimeout(DefaultTimeout)
    /\ is_enabled = FALSE
    /\ timeout_arg = DefaultTimeout
    /\ en_pc = "none"
    /\ since_fire = IdleCap
    /\ since_enable = IdleCap
    /\ match_call = NoCall
    /\ ExtInit

SelfNext ==
    \/ \E pid \in Pids, prog \in SelfPrograms : Launch(pid, prog)
    \/ \E pid \in Pids : Exit(pid)
    \/ Alive /\ Tick
    \/ Alive /\ LoopCheck
    \/ Alive /\ CheckMonitoring
    \/ Alive /\ CloneProtected
    \/ Alive /\ get_all_processes
    \/ Alive /\ KillStep
    \/ Alive /\ ReportDone
    \/ Alive /\ OnKillStatus
    \/ Alive /\ OnKillSpawn
    \/ Alive /\ RevertTimer

SelfSpec == SelfInit /\ [][SelfNext]_vars

-----------------------------------------------------------------------------
(* Steps, recognised by what they change *)

\* a revert timer has fired in this step
RevertFired == timers'[0] < timers[0]

\* a SIGKILL has been sent in this step
SignalSent == Cardinality(signals') > Cardinality(signals)

ActivateCalled == act_pc = "none" /\ act_pc' = "flag"

ActivateReturned == act_pc = "reset" /\ act_pc' = "none"

LockCalled == lock_pc = "none" /\ lock_pc' = "flag"

LockReturnedOk == lock_pc = "write" /\ lock_pc' = "none"

LockReturnedErr == lock_pc = "read" /\ lock_pc' = "none"

IdleFired == idle_pc = "on_idle" /\ idle_pc' = "reset"

\* the idle detector's tick has found is_idle() true in this step
IdleChecked == idle_pc = "wait" /\ idle_pc' = "on_idle"

\* the idle detector is back at its interval after a callback
IdleResetDone == idle_pc = "reset" /\ idle_pc' = "wait"

\* the on_kill closure has written THREAT_DETECTED in this step
ThreatWritten == scan_pc = "report" /\ scan_pc' = "spawn"

\* the on_kill closure has spawned its revert task and returned in this step
KillEventSpawned == scan_pc = "spawn" /\ scan_pc' = "report"

\* the scan loop has looked at the monitoring flag after its interval in this step
LoopChecked == scan_pc = "loop" /\ scan_pc' # "loop"

\* update_protected_processes has returned Err in this step
RefreshFailed ==
    \/ lock_pc = "read" /\ lock_pc' = "none"
    \/ add_pc = "read" /\ add_pc' = "none"
    \/ rem_pc = "read" /\ rem_pc' = "none"

\* one iteration of the kill loop has run in this step
KillStepTaken == scan_pc = "kill" /\ (scan_i' # scan_i \/ scan_pc' # scan_pc)

\* monitor.update_protected_processes has stored a list in this step
ReplicaWritten ==
    \/ lock_pc = "write" /\ lock_pc' = "none"
    \/ add_pc = "write" /\ add_pc' = "none"
    \/ rem_pc = "write" /\ rem_pc' = "none"

-----------------------------------------------------------------------------
(* Claims *)

\* C1 (as stated): a revert timer changes THREAT_DETECTED to LOCKED only when
\* at least the 3-second grace delay has passed since the most recent kill
\* event wrote THREAT_DETECTED.
C1_RevertRespectsLatestKill ==
    [][(RevertFired /\ shield_status = "THREAT_DETECTED" /\ shield_status' = "LOCKED")
          => since_kill >= GraceDelay]_vars

\* C2: a THREAT_DETECTED status written by a kill event leads to LOCKED when no
\* activate, lock or idle-timeout event follows (further kills may): the
\* revert timer the kill callback spawned fires.
C2_ThreatRevertsToLocked ==
    (shield_status = "THREAT_DETECTED") ~> (shield_status = "LOCKED")

\* C2 witness: a kill wrote THREAT_DETECTED three seconds ago, its revert timer
\* has fired, and the status is LOCKED.
C2_Witness ==
    /\ shield_status = "LOCKED"
    /\ since_kill = GraceDelay
    /\ timers[0] = 0

\* C3 (as stated): under every interleaving of activate_shield with scan-loop
\* ticks (no lock command in flight, no other writer during the activate), the
\* scan loop sends no termination signal at a moment when the status is ACTIVE.
C3_NoKillWhileActive ==
    [][(SignalSent /\ lock_pc = "none" /\ act_clean) => shield_status # "ACTIVE"]_vars

\* C4: activate_shield, called in any state, writes ACTIVE and then disables the
\* monitoring flag; when it returns without another writer in between the
\* status is ACTIVE and the flag is off; a scan tick that finds the flag off
\* at either of its two tests sends no signal and reports no kill.
C4_ActivateTotal ==
    [][ /\ ActivateCalled => shield_status' = "ACTIVE"
        /\ (act_pc = "flag" /\ act_pc' = "reset") => ~is_monitoring'
        /\ (ActivateReturned /\ act_clean)
              => (shield_status' = "ACTIVE" /\ ~is_monitoring')
        /\ (scan_pc = "loop" /\ ~is_monitoring /\ scan_pc' # "loop")
              => (scan_pc' = "sleep" /\ signals' = signals /\ killed' = killed)
        /\ (scan_pc = "check" /\ ~is_monitoring /\ scan_pc' # "check")
              => (scan_pc' = "report" /\ signals' = {} /\ killed' = << >>)
      ]_vars

\* C4 witness: activate_shield has returned during a threat window (a revert
\* timer is still pending): status ACTIVE, flag off, replica loaded by a lock.
C4_Witness ==
    /\ shield_status = "ACTIVE"
    /\ ~is_monitoring
    /\ act_pc = "none"
    /\ lock_pc = "none"
    /\ PendingTimers # {}
    /\ Len(protected_processes) > 0

\* C5: lock_shield, called in any state, writes LOCKED and then enables the
\* monitoring flag; when it returns Ok without another writer in between, the
\* status is LOCKED, the flag is on and the replica is the collaborator's
\* current list; when the refresh fails, the status and the flag are set all
\* the same and the replica is left as it was.
C5_LockTotal ==
    [][ /\ LockCalled => shield_status' = "LOCKED"
        /\ (lock_pc = "flag" /\ lock_pc' = "read") => is_monitoring'
        /\ (LockReturnedOk /\ lock_clean)
              => /\ shield_status' = "LOCKED"
                 /\ is_monitoring'
                 /\ protected_processes' = DbProcessNames
        /\ (LockReturnedErr /\ lock_clean)
              => /\ shield_status' = "LOCKED"
                 /\ is_monitoring'
                 /\ protected_processes' = protected_processes
      ]_vars

\* C5 witness: a lock_shield has run to its end: LOCKED, flag on, replica
\* equal to the stored list (the replica starts empty and only lock writes it).
C5_Witness ==
    /\ shield_status = "LOCKED"
    /\ is_monitoring
    /\ lock_pc = "none"
    /\ act_pc = "none"
    /\ Len(protected_processes) > 0
    /\ protected_processes = DbProcessNames

\* C6 (as stated): when the idle callback fires while the status is ACTIVE (no
\* command in flight), the status becomes LOCKED and enforcement (the
\* monitoring flag) is on.
C6_IdleRearms ==
    [][(IdleFired /\ shield_status = "ACTIVE" /\ act_pc = "none" /\ lock_pc = "none")
          => (shield_status' = "LOCKED" /\ is_monitoring')]_vars

\* C7 (as stated): the initial state is LOCKED with the monitoring flag on, and
\* the flag is changed by the lock and activate commands only.
C7_InitialEnforcing ==
    /\ (shield_status = "LOCKED" /\ is_monitoring = TRUE)
    /\ [][is_monitoring' # is_monitoring => (act_pc' # act_pc \/ lock_pc' # lock_pc)]_vars

\* C8 (as stated): once activate() has set ACTIVE (undisturbed by a lock
\* command), ACTIVE is left only through lock() or an idle timeout; no kill
\* report of an in-flight scan tick and no revert timer changes the status.
C8_ActiveLeftOnlyByLockOrIdle ==
    [][(shield_status = "ACTIVE" /\ shield_status' # "ACTIVE"
           /\ lock_pc = "none" /\ act_clean)
          => (LockCalled \/ IdleFired)]_vars

\* C9: a revert timer that fires writes LOCKED only if the status is
\* THREAT_DETECTED at that instant; any other status, ACTIVE written by
\* activate() during the grace window included, is left as it is.
C9_RevertOnlyFromThreat ==
    [][RevertFired
          => shield_status' = IF shield_status = "THREAT_DETECTED"
                              THEN "LOCKED" ELSE shield_status]_vars

\* C9 witness: activate() has written ACTIVE during the grace window and the
\* revert timer is due.
C9_Witness ==
    /\ shield_status = "ACTIVE"
    /\ act_pc = "none"
    /\ timers[0] > 0
    /\ since_kill = GraceDelay

\* the processes of the tick's snapshot that match a name of the tick's copy
\* of the protected set
MatchingInSnapshot ==
    {k \in 1..Len(processes) :
        \E n \in 1..Len(protected) :
            process_matches(protected[n], processes[k].name, processes[k].exe_path)}

\* C10: when the kill loop of a tick has ended, the pids sent SIGKILL in the
\* tick are exactly the pids of the snapshot's processes that match a
\* protected name, and every kill event is the (pid, name) of such a process.
C10_EveryMatchSignalled ==
    scan_pc \in {"report", "spawn"}
       => /\ signals = {processes[k].pid : k \in MatchingInSnapshot}
          /\ \A j \in 1..Len(killed) :
                \E k \in MatchingInSnapshot :
                    killed[j] = << processes[k].pid, processes[k].name >>

\* C10 witness: protected set {"brave"}, pid 100 named "brave-browser" and a
\* second matching process in one snapshot; both signalled, and the event
\* (100, "brave-browser") reported.
C10_Witness ==
    /\ scan_pc = "report"
    /\ protected = << Brave >>
    /\ Len(processes) = 2
    /\ Cardinality(signals) = 2
    /\ \E j \in 1..Len(killed) : killed[j] = << 100, BraveBrowser >>

\* a SIGKILL was sent in this step and its delivery failed
DeliveryFailed == SignalSent /\ delivered' = delivered

\* C11: the kill sink is called with pairwise different processes, each one a
\* snapshot process whose signal was delivered, and when the reporting of a
\* tick is complete it has been called for every delivered one; a failed
\* delivery adds no event and the kill loop moves on to the next process of
\* the snapshot, or to the reporting when there is none.
C11_SinkOncePerDelivered ==
    /\ [](/\ \A i, j \in 1..Len(reported) : reported[i][1] = reported[j][1] => i = j
          /\ \A j \in 1..Len(reported) :
                /\ reported[j][1] \in delivered
                /\ \E k \in 1..Len(processes) :
                      reported[j] = << processes[k].pid, processes[k].name >>
          /\ (scan_pc = "report" /\ scan_i > Len(killed))
                => {reported[j][1] : j \in 1..Len(reported)} = delivered)
    /\ [][DeliveryFailed
            => /\ killed' = killed
               /\ scan_pc' = IF scan_i < Len(processes) THEN "kill" ELSE "report"
               /\ scan_i' = IF scan_i < Len(processes) THEN scan_i + 1 ELSE 1]_vars

\* C11 witness: in one tick the signal to the first matching process failed
\* and the signal to the second was delivered; the sink has been called once,
\* for the second, and the reporting is complete.
C11_Witness ==
    /\ scan_pc = "report"
    /\ scan_i > Len(killed)
    /\ Len(processes) = 2
    /\ Cardinality(signals) = 2
    /\ delivered = {processes[2].pid}
    /\ Len(reported) = 1

\* C12 (as stated): no process of a tick's snapshot whose name starts with one
\* of the static system prefixes is sent a termination signal in the tick,
\* whatever the protected names are.
C12_SystemProcessesSpared ==
    \A k \in 1..Len(processes) :
        processes[k].pid \in signals => ~is_system_process(processes[k].name)

\* two characters are the same letter: equal, or the two cases of one letter
\* (sigma has one capital and two small forms)
SameLetter(c, d) ==
    \/ c = d
    \/ \E i \in 1..Len(UpperChars) : {c, d} = {UpperChars[i], LowerChars[i]}
    \/ {c, d} \subseteq {"SIGMA", "sigma", "final_sigma"}

EqualIgnoringCase(a, b) ==
    /\ Len(a) = Len(b)
    /\ \A i \in 1..Len(a) : SameLetter(a[i], b[i])

\* a is a prefix of b, letter case aside
PrefixIgnoringCase(a, b) ==
    /\ Len(a) <= Len(b)
    /\ EqualIgnoringCase(a, SubSeq(b, 1, Len(a)))

\* C13 (as stated): a call whose process name equals the protected name up to
\* letter case returns true, whatever the exe_path.
C13_MatchIgnoresCase ==
    (match_call.called
       /\ EqualIgnoringCase(match_call.protected_name, match_call.process_name))
      => match_call.result

\* C14 (as stated): a call in which one name is the other followed by a suffix
\* (possibly empty), in either direction, returns true whatever the exe_path.
C14_PrefixEitherWay ==
    (match_call.called
       /\ \/ StartsWith(match_call.process_name, match_call.protected_name)
          \/ StartsWith(match_call.protected_name, match_call.process_name))
      => match_call.result

\* neither name of the call is a prefix of the other, letter case aside
NamesUnrelated ==
    /\ ~PrefixIgnoringCase(match_call.protected_name, match_call.process_name)
    /\ ~PrefixIgnoringCase(match_call.process_name, match_call.protected_name)

\* the exe_path of the call is present and its lower-cased text contains the
\* lower-cased protected name, or its final segment equals the protected
\* name, starts with it or is a prefix of it, letter case aside
ExePathRule ==
    /\ match_call.exe_path.some
    /\ LET p       == match_call.protected_name
           segment == LastSegment(match_call.exe_path.val)
       IN  \/ Contains(ToLower(match_call.exe_path.val), ToLower(p))
           \/ EqualIgnoringCase(segment, p)
           \/ PrefixIgnoringCase(p, segment)
           \/ PrefixIgnoringCase(segment, p)

\* C15 (as stated): when neither name is a prefix of the other, the call
\* returns true exactly when the exe_path rule holds; in particular it returns
\* false when the exe_path is absent.
C15_ExePathDecides ==
    (match_call.called /\ NamesUnrelated) => (match_call.result <=> ExePathRule)

\* C16: the idle detector's tick finds is_idle() true exactly when tracking is
\* enabled and the time since last_activity is at least timeout_minutes * 60
\* seconds; with tracking disabled it never does, whatever the elapsed time.
C16_IdleExactly ==
    idle_pc = "wait"
       => (ENABLED IdleCheck
             <=> (is_enabled = TRUE /\ since_activity >= timeout_minutes * 60))

\* C16 witness: with a 2-minute timeout and tracking enabled, is_idle() has
\* returned true at exactly 120 seconds.
C16_Witness ==
    /\ idle_pc = "on_idle"
    /\ is_enabled
    /\ timeout_minutes = 2
    /\ since_activity = 120

\* C17: a tick that finds the tracker idle calls the callback once and then
\* resets last_activity, after which the tracker is not idle; the tick that
\* next finds it idle comes at least the full timeout after the last callback.
C17_NoRefire ==
    [][ /\ IdleChecked => since_fire >= timeout_minutes * SecsPerMinute
        /\ IdleFired => (idle_pc' = "reset" /\ since_fire' = 0)
        /\ IdleResetDone => (since_activity' = 0 /\ ~is_idle')
      ]_vars

\* C17 witness: one minute after a callback, with a 1-minute timeout and
\* tracking enabled, the tracker is idle again and the callback is due.
C17_Witness ==
    /\ idle_pc = "on_idle"
    /\ timeout_minutes = 1
    /\ since_fire = SecsPerMinute
    /\ since_activity = SecsPerMinute

\* C18 (as stated): when set_enabled(true) has returned, is_idle() is false,
\* and no tick of the idle detector finds the tracker idle before a full
\* timeout has passed since the call.
C18_EnableGivesFullTimeout ==
    [][ /\ (en_pc = "reset" /\ en_pc' = "toggle") => ~is_idle'
        /\ IdleChecked => since_enable >= timeout_minutes * SecsPerMinute
      ]_vars

\* C19: timeout_minutes is always within [1, 10] and equals
\* min(10, max(1, x)) for the value x last given, at startup or by command.
C19_TimeoutClamped ==
    /\ timeout_minutes \in 1..10
    /\ LET floored == IF timeout_arg > 1 THEN timeout_arg ELSE 1
       IN  timeout_minutes = IF floored < 10 THEN floored ELSE 10

\* C19 witness: the command was given a value below the range after time had
\* passed with a 10-minute timeout, and the timeout is 1.
C19_Witness ==
    /\ timeout_arg = -2147483647
    /\ timeout_minutes = 1
    /\ since_activity = 10 * SecsPerMinute

\* C20: monitoring starts disabled; set_monitoring(x) leaves the flag at x and
\* nothing else changes it, so the flag is the argument of the last call; a
\* check_and_kill_protected that finds the flag false sends no signal, leaves
\* the process table alone and returns an empty list.
C20_MonitoringFlag ==
    /\ is_monitoring = FALSE
    /\ [][ /\ (act_pc = "flag" /\ act_pc' = "reset") => is_monitoring' = FALSE
           /\ (lock_pc = "flag" /\ lock_pc' = "read") => is_monitoring' = TRUE
           /\ is_monitoring' # is_monitoring
                 => \/ act_pc = "flag" /\ act_pc' = "reset"
                    \/ lock_pc = "flag" /\ lock_pc' = "read"
           /\ (scan_pc = "check" /\ scan_pc' # "check" /\ is_monitoring = FALSE)
                 => /\ scan_pc' = "report"
                    /\ killed' = << >>
                    /\ signals' = {}
                    /\ procs' = procs
         ]_vars

\* C20 witness: set_monitoring(true) and then set_monitoring(false) have been
\* called, and a check_and_kill_protected has returned the empty list with a
\* matching process running and the protected names loaded.
C20_Witness ==
    /\ is_monitoring = FALSE
    /\ act_pc = "none"
    /\ lock_pc = "none"
    /\ scan_pc = "report"
    /\ killed = << >>
    /\ processes = << >>
    /\ protected_processes = << Brave >>
    /\ \E p \in procs : is_protected(protected_processes, p)

\* C21 (as stated): a failed read of the protected names leaves the replica and
\* the scan loop as they were, and the refresh is tried again on the next
\* cycle: no cycle that began after the failure ends without a new read
C21_FailedRefreshRetried ==
    /\ [](scan_pc = "sleep" => refresh_due # "cycle")
    /\ [][RefreshFailed =>
             /\ protected_processes' = protected_processes
             /\ UNCHANGED scanVars]_vars

\* C22: a successful refresh stores exactly the list it read in place of the
\* replica; a tick takes its copy of the replica when it starts, keeps that
\* copy until it ends whatever is stored meanwhile, and signals only processes
\* that match the copy, so a name no longer in the replica is not matched by
\* a tick that starts after the refresh
C22_ReplicaReplaced ==
    [][ /\ (lock_pc = "write" /\ lock_pc' = "none" => protected_processes' = lock_names)
        /\ (add_pc = "write" /\ add_pc' = "none" => protected_processes' = add_names)
        /\ (rem_pc = "write" /\ rem_pc' = "none" => protected_processes' = rem_names)
        /\ (protected_processes' # protected_processes => ReplicaWritten)
        /\ (scan_pc = "clone" /\ scan_pc' # "clone" => protected' = protected_processes)
        /\ (scan_pc \in {"enum", "kill"} => protected' = protected)
        /\ (SignalSent => is_protected(protected, processes[scan_i])) ]_vars

\* the app was removed and the replica emptied while a tick was in progress;
\* the tick has signalled a process that matched its copy
C22_Witness ==
    /\ protected = << Brave >>
    /\ protected_processes = << >>
    /\ db_apps = << >>
    /\ rem_pc = "none"
    /\ signals # {}

\* C23 (as stated): when the status written for a kill becomes THREAT_DETECTED,
\* the process-killed notification carrying the pid and the name of that kill
\* has already been issued
C23_ReportBeforeThreat ==
    [][ThreatWritten =>
          \E j \in 1..Len(notified) : notified[j] = killed[scan_i]]_vars

\* C24: on Linux the visible name is the decoy after any number of enable()
\* calls in a row and the original name after any number of disable() calls,
\* and both return Ok; elsewhere both return Err and no step changes the name
C24_StealthIdempotent ==
    /\ [](IF platform = "linux"
          THEN /\ stealth_last.call # "none" => stealth_last.ok
               /\ stealth_last.call = "enable" => visible_name = DecoyName
               /\ stealth_last.call = "disable" => visible_name = OriginalName
          ELSE stealth_last.call # "none" => ~stealth_last.ok)
    /\ [][platform # "linux" => visible_name' = visible_name]_vars

\* enable() has been called twice in a row on Linux
C24_Witness ==
    /\ platform = "linux"
    /\ stealth_last = [call |-> "enable", ok |-> TRUE, again |-> TRUE]
    /\ visible_name = DecoyName

\* C25 (as stated): the idle callback moves the status to LOCKED and reports
\* the auto-lock only when the status is not LOCKED already; when it is, the
\* callback changes nothing and reports no auto-lock
C25_AutoLockOnlyWhenUnlocked ==
    [][IdleFired =>
          IF shield_status = "LOCKED"
          THEN shield_status' = "LOCKED" /\ ~auto_locked'
          ELSE shield_status' = "LOCKED" /\ auto_locked']_vars

\* C26: with the tasks scheduled fairly, enforcement on and a matching name in
\* the replica, a matching process is sent a termination signal unless it
\* leaves the process table first; and the loop comes back to its interval
\* again and again, whatever signal failed, whatever kill was reported and
\* whatever the status is
C26_MatchEventuallySignalled ==
    /\ \A pid \in Pids :
          (\E p \in procs : p.pid = pid /\ is_protected(protected_processes, p))
             ~> (pid \in signals
                   \/ ~ \E p \in procs : p.pid = pid /\ is_protected(protected_processes, p))
    /\ []<>(scan_pc = "loop")

\* a matching process is still in the table after the signal sent to it in
\* this tick failed, while the status is THREAT_DETECTED from an earlier kill
C26_Witness ==
    /\ shield_status = "THREAT_DETECTED"
    /\ is_monitoring
    /\ \E p \in procs :
          /\ is_protected(protected_processes, p)
          /\ p.pid \in signals \ delivered

\* C27 (as stated): when lock_shield and activate_shield have run concurrently
\* and the last of them returns, the status and the monitoring flag agree:
\* ACTIVE goes with the flag off, LOCKED with the flag on
C27_StatusFlagAgree ==
    [][ ((ActivateReturned \/ LockReturnedOk \/ LockReturnedErr)
            /\ act_pc' = "none" /\ lock_pc' = "none")
          => /\ shield_status' = "ACTIVE" => ~is_monitoring'
             /\ shield_status' = "LOCKED" => is_monitoring' ]_vars

\* C28 (as stated): when add_protected_app, remove_protected_app and
\* lock_shield commands have run concurrently, none has returned an error and
\* the last of them returns, the replica is the stored list
C28_ReplicaFresh ==
    [][ (ReplicaWritten /\ batch_ok
            /\ lock_pc' = "none" /\ add_pc' = "none" /\ rem_pc' = "none")
          => protected_processes' = Reverse(db_apps') ]_vars

\* C29 (as stated): the idle callback locks the shield only when a full
\* timeout has passed since the last recorded activity, also when the
\* detector's tick found is_idle() true before that activity was recorded
C29_NoLockAfterActivity ==
    [][IdleFired => since_activity >= timeout_minutes * SecsPerMinute]_vars

\* C30: no task holds two mutexes at once, except the idle detector inside
\* is_idle, which holds last_activity and, taken after it and dropped before
\* it, timeout_minutes; and whenever a task waits for a mutex, the task that
\* holds it is not waiting, so some task can always go on: no deadlock
C30_NoDeadlock ==
    /\ \A t \in LockTasks :
          \/ Cardinality(Held(t)) <= 1
          \/ t = "idle" /\ Held(t) = {"last_activity", "timeout_minutes"}
    /\ Held("idle") # {"timeout_minutes"}
    /\ \A t \in LockTasks :
          Waits(t) => ~Waits(owner[Head(lk[t])[2]])
    /\ (\E t \in LockTasks : lk[t] # << >>) => ENABLED (\E t \in LockTasks : Acquire(t) \/ Release(t))

\* the idle detector is inside is_idle with both mutexes; a command waits for
\* last_activity and the scan loop's closure holds the database
C30_Witness ==
    /\ Held("idle") = {"last_activity", "timeout_minutes"}
    /\ Waits("command")
    /\ Held("scan") = {"conn"}
    /\ Waits("revert") \/ Held("revert") = {"shield_status"}

\* the tick's copy of the protected set holds an empty name
HasEmptyName == \E n \in 1..Len(protected) : protected[n] = EmptyName

\* C31: an empty protected name matches every process name and an empty
\* process name matches every protected name: while the tick's copy of the
\* protected set holds an empty name, every process of the tick's snapshot, the
\* agent's own process included, matches it, and an iteration of the kill loop
\* sends SIGKILL to the process it looks at whenever the set holds an empty
\* name or the process's name is empty and the set holds any name.
C31_EmptyNameMatchesAll ==
    /\ [](scan_pc = "kill" /\ HasEmptyName
            => /\ \E k \in 1..Len(processes) : processes[k].pid = SelfPid
               /\ \A k \in 1..Len(processes) :
                     process_matches(EmptyName, processes[k].name, processes[k].exe_path))
    /\ [][ (KillStepTaken /\ (\/ HasEmptyName
                              \/ Len(protected) > 0 /\ processes[scan_i].name = EmptyName))
             => processes[scan_i].pid \in signals' ]_vars

\* C31 witness: an enforcing tick with the protected set {"chrome", ""} has
\* sent SIGKILL to the agent's own pid, and the agent's process is gone.
C31_Witness ==
    /\ protected = << Chrome, EmptyName >>
    /\ SelfPid \in delivered
    /\ ~Alive

\* C31 witness of the second half: a process without a name was signalled
\* under the protected set {"chrome"}, which holds no empty name.
C31_WitnessEmptyProcess ==
    /\ protected = << Chrome >>
    /\ \E k \in 1..Len(processes) :
          processes[k].name = EmptyName /\ processes[k].pid \in signals
    /\ Alive

\* every toggle_security_policy command has returned
TogglesAtRest == \A c \in ToggleCommands : toggle_cmd[c].pc = "none"

\* C32 (as stated): once every toggle_security_policy("policy_4") command
\* that was running has returned, the idle tracker's enabled flag equals the
\* stored enabled value of the policy.
C32_TrackerFollowsPolicy ==
    TogglesAtRest => is_enabled = policy_enabled

\* C33: enforcement goes on while the status is THREAT_DETECTED.  A kill
\* event (the status write and the spawn of its revert task) and a firing
\* revert timer leave the monitoring flag as it is; after its interval the
\* scan loop goes on to scan exactly if the flag is on, whatever the status;
\* an iteration of the kill loop that meets a matching process while the
\* status is THREAT_DETECTED sends it SIGKILL and, the signal delivered,
\* records its kill event; and every kill event writes THREAT_DETECTED, is
\* reported, and adds a revert timer of its own, due after the grace delay.
C33_EnforcesDuringThreat ==
    /\ [][(ThreatWritten \/ KillEventSpawned \/ RevertFired)
            => is_monitoring' = is_monitoring]_vars
    /\ [][LoopChecked => scan_pc' = IF is_monitoring THEN "check" ELSE "sleep"]_vars
    /\ [][(/\ KillStepTaken
           /\ shield_status = "THREAT_DETECTED"
           /\ is_protected(protected, processes[scan_i]))
            => /\ processes[scan_i].pid \in signals'
               /\ processes[scan_i].pid \in delivered'
                     => killed' = Append(killed, << processes[scan_i].pid,
                                                    processes[scan_i].name >>)]_vars
    /\ [][ThreatWritten => /\ shield_status' = "THREAT_DETECTED"
                           /\ reported' = Append(reported, killed[scan_i])]_vars
    /\ [][KillEventSpawned
            => timers' = [timers EXCEPT ![GraceDelay] = timers[GraceDelay] + 1]]_vars

\* C33 witness: a tick has reported a kill event of its own while the status
\* was THREAT_DETECTED from an earlier tick's event; the earlier event's
\* revert timer and the new one are both pending and the flag is still on.
C33_Witness ==
    /\ scan_pc = "report"
    /\ Len(reported) > 0
    /\ scan_i > Len(killed)
    /\ shield_status = "THREAT_DETECTED"
    /\ is_monitoring
    /\ timers[GraceDelay] > 0
    /\ \E r \in 0..(GraceDelay - 1) : timers[r] > 0

====
